---- MODULE Spec2Model ----
(***************************************************************************)
(* ZBush: a static spatial index for 2D points on a Z-order curve with     *)
(* BIGMIN pruning (src/index.js, class ZBush and its helpers).             *)
(*                                                                         *)
(* Representation of values.                                               *)
(*  - A non-negative BigInt (the keys, masks and all operands of the bit   *)
(*    operations) is the set of the positions of its 1 bits: 5n = {0, 2}.  *)
(*    This keeps the full 64-bit width of the keys.                        *)
(*  - A JavaScript number passed by the caller (a coordinate or a query    *)
(*    bound) is a record [neg, mag, frac]: its value is                    *)
(*    (IF neg THEN -1 ELSE 1) * (mag + frac/2), mag a bit set and frac in  *)
(*    {0, 1}; -1 = [TRUE, {0}, 0], 2.5 = [FALSE, {1}, 1],                  *)
(*    2^32 = [FALSE, {32}, 0].                                             *)
(*  - Array indices, lengths and ids are ordinary naturals.                *)
(***************************************************************************)
EXTENDS Integers, Sequences, FiniteSets, TLC

\* The most points one behaviour adds.
MaxPoints == 3

\* The helper functions are called on the coordinates 0, u, 2u, ..,
\* GridMax * u of one unit u.
GridMax == 3

-----------------------------------------------------------------------------
(* BigInt bit operations on bit sets *)

SetMax(S) == CHOOSE m \in S : \A e \in S : e <= m

\* The BigInt of a small natural literal (0x55n and the like).
Big(n) == {i \in 0..30 : (n \div (2 ^ i)) % 2 = 1}

\* The small natural of a BigInt below 2^31 (an array subscript).
RECURSIVE BigToNat(_)
BigToNat(b) ==
  IF b = {} THEN 0
  ELSE LET i == SetMax(b) IN (2 ^ i) + BigToNat(b \ {i})

BAnd(a, b) == a \cap b
BOr(a, b) == a \cup b
Shl(a, k) == {i + k : i \in a}
Shr(a, k) == {i - k : i \in {j \in a : j >= k}}

\* a < b and a <= b on BigInt
BLt(a, b) == a # b /\ SetMax((a \ b) \cup (b \ a)) \in b
BLeq(a, b) == a = b \/ BLt(a, b)

-----------------------------------------------------------------------------
(* JavaScript numbers *)

Num(n) == [neg |-> FALSE, mag |-> Big(n), frac |-> 0]
NegNum(n) == [neg |-> TRUE, mag |-> Big(n), frac |-> 0]
HalfNum(n) == [neg |-> FALSE, mag |-> Big(n), frac |-> 1]
Uint32Max == [neg |-> FALSE, mag |-> 0..31, frac |-> 0]
TwoPow32 == [neg |-> FALSE, mag |-> {32}, frac |-> 0]

IsZero(v) == v.mag = {} /\ v.frac = 0

\* |a| < |b|
MagLt(a, b) == BLt(a.mag, b.mag) \/ (a.mag = b.mag /\ a.frac < b.frac)

\* a < b, a <= b, a >= b on numbers
NumLt(a, b) ==
  IF IsZero(a) /\ IsZero(b) THEN FALSE
  ELSE IF a.neg /\ ~b.neg THEN TRUE
  ELSE IF ~a.neg /\ b.neg THEN FALSE
  ELSE IF a.neg THEN MagLt(b, a)
  ELSE MagLt(a, b)
NumEq(a, b) == (IsZero(a) /\ IsZero(b)) \/ a = b
NumLeq(a, b) == NumLt(a, b) \/ NumEq(a, b)
NumGeq(a, b) == NumLeq(b, a)

\* the test for a fraction that lets every number pass
IsIntegralAny(v) == TRUE

\* BigInt(v): defined on integral numbers only (a RangeError otherwise).
IsIntegral(v) == v.frac = 0
BigInt(v) == [neg |-> v.neg /\ v.mag # {}, mag |-> v.mag]

\* BigInt.asUintN(bits, b): b modulo 2^bits, as a non-negative BigInt.
asUintN(bits, b) ==
  LET low == b.mag \cap (0..(bits - 1)) IN
  IF ~b.neg \/ low = {} THEN low
  ELSE LET p == CHOOSE i \in low : \A j \in low : i <= j
       IN {p} \cup {i \in (p + 1)..(bits - 1) : i \notin low}

-----------------------------------------------------------------------------
(* Validation and the Z-order encoding *)

\* fitsUintN comparing the magnitudes only, so that -1 fits
fitsUintNUnsigned(bits, v) ==
  IF ~IsIntegral(v) THEN FALSE
  ELSE LET b == BigInt(v)
       IN asUintN(bits, [neg |-> FALSE, mag |-> b.mag]) = b.mag

\* fitsUintN(bits, v): v is an integer that an unsigned type of that many
\* bits represents; the RangeError of BigInt(v) on a fraction gives false.
fitsUintN(bits, v) ==
  IF ~IsIntegral(v) THEN FALSE
  ELSE LET b == BigInt(v) IN ~b.neg /\ asUintN(bits, b) = b.mag

bitblast4 ==
  << Big(0), Big(1), Big(4), Big(5), Big(16), Big(17), Big(20), Big(21),
     Big(64), Big(65), Big(68), Big(69), Big(80), Big(81), Big(84), Big(85) >>

\* bitblast4[n] for a BigInt subscript n (the table is indexed from 0)
bitblast4At(n) == bitblast4[BigToNat(n) + 1]

\* bitblast8 with the high four bits spread to bit 4 upwards
bitblast8Packed(x) ==
  BOr(Shl(bitblast4At(BAnd(Shr(x, 0), 0..3)), 0),
      Shl(bitblast4At(BAnd(Shr(x, 4), 0..3)), 4))

bitblast8(x) ==
  BOr(Shl(bitblast4At(BAnd(Shr(x, 0), 0..3)), 0),
      Shl(bitblast4At(BAnd(Shr(x, 4), 0..3)), 8))

bitblast16(x) ==
  BOr(Shl(bitblast8(BAnd(Shr(x, 0), 0..7)), 0),
      Shl(bitblast8(BAnd(Shr(x, 8), 0..7)), 16))

bitblast32(x) ==
  BOr(Shl(bitblast16(BAnd(Shr(x, 0), 0..15)), 0),
      Shl(bitblast16(BAnd(Shr(x, 16), 0..15)), 32))

\* zencode64(x, y) of two numbers: y on the odd bits, x on the even bits.
zencode64(x, y) ==
  LET bx == asUintN(32, BigInt(x))
      by == asUintN(32, BigInt(y))
  IN BOr(Shl(bitblast32(by), 1), bitblast32(bx))

-----------------------------------------------------------------------------
(* Binary searches over a[f..l), a indexed from 0 in the source *)

RECURSIVE bsearchlteLoop(_, _, _, _)
bsearchlteLoop(a, f, n, v) ==
  IF n > 0
  THEN LET step == n \div 2
           i == f + step
       IN IF BLeq(a[i + 1], v)
          THEN bsearchlteLoop(a, i + 1, n - (step + 1), v)
          ELSE bsearchlteLoop(a, f, step, v)
  ELSE f

RECURSIVE bsearchltLoop(_, _, _, _)
bsearchltLoop(a, f, n, v) ==
  IF n > 0
  THEN LET step == n \div 2
           i == f + step
       IN IF BLt(a[i + 1], v)
          THEN bsearchltLoop(a, i + 1, n - (step + 1), v)
          ELSE bsearchltLoop(a, f, step, v)
  ELSE f

\* bsearchlte with the comparison of bsearchlt
bsearchlteAsLt(a, f, l, v) == bsearchltLoop(a, f, l - f, v)

\* the first index in [f, l) whose element is not <= v
bsearchlte(a, f, l, v) == bsearchlteLoop(a, f, l - f, v)

\* bsearchlt with the comparison of bsearchlte
bsearchltAsLte(a, f, l, v) == bsearchlteLoop(a, f, l - f, v)

\* the first index in [f, l) whose element is not < v
bsearchlt(a, f, l, v) == bsearchltLoop(a, f, l - f, v)

-----------------------------------------------------------------------------
(* BIGMIN *)

\* loadmask keeping every bit: 0xffffffffffffffffn
LoadMaskAll == 0..63

\* loadones setting no bit: 0n
LoadOnesNone == {}

\* 0x5555555555555555n, 0x2aaaaaaaaaaaaaaan, 0x8000000000000000n
LoadMask0 == {i \in 0..63 : i % 2 = 0}
LoadOnes0 == {i \in 0..61 : i % 2 = 1}
TopBit == {63}

\* the iteration whose branch on (0, 1, 1) returns bigmin instead of zmin
bigminStepBranchBigmin(zval, st) ==
  IF st.done THEN st
  ELSE IF st.mask = {} THEN [st EXCEPT !.done = TRUE, !.znext = st.bm]
  ELSE
    LET bzval == BAnd(zval, st.mask) # {}
        bzmin == BAnd(st.zmin, st.mask) # {}
        bzmax == BAnd(st.zmax, st.mask) # {}
        shifted == [st EXCEPT !.mask = Shr(st.mask, 1),
                              !.loadones = Shr(st.loadones, 1),
                              !.loadmask = BOr(Shr(st.loadmask, 1), TopBit)]
    IN IF ~bzval /\ ~bzmin /\ ~bzmax
       THEN [shifted EXCEPT !.taken = @ \cup {"000"}]
       ELSE IF ~bzval /\ ~bzmin /\ bzmax
       THEN [shifted EXCEPT
               !.bm = BOr(BAnd(st.zmin, st.loadmask), st.mask),
               !.zmax = BOr(BAnd(st.zmax, st.loadmask), st.loadones),
               !.taken = @ \cup {"001"}]
       ELSE IF ~bzval /\ bzmin /\ bzmax
       THEN [st EXCEPT !.done = TRUE, !.znext = st.bm,
                       !.taken = @ \cup {"011"}]
       ELSE IF bzval /\ ~bzmin /\ ~bzmax
       THEN [st EXCEPT !.done = TRUE, !.znext = st.bm,
                       !.taken = @ \cup {"100"}]
       ELSE IF bzval /\ ~bzmin /\ bzmax
       THEN [shifted EXCEPT
               !.zmin = BOr(BAnd(st.zmin, st.loadmask), st.mask),
               !.taken = @ \cup {"101"}]
       ELSE IF bzval /\ bzmin /\ bzmax
       THEN [shifted EXCEPT !.taken = @ \cup {"111"}]
       ELSE [shifted EXCEPT !.taken = @ \cup {"can not happen"}]

\* One iteration of the loop of bigmin on its locals st: the test of mask,
\* the branch on the three bits, then the shifts. done marks that the
\* function has returned znext; taken collects the branches taken.
bigminStep(zval, st) ==
  IF st.done THEN st
  ELSE IF st.mask = {} THEN [st EXCEPT !.done = TRUE, !.znext = st.bm]
  ELSE
    LET bzval == BAnd(zval, st.mask) # {}
        bzmin == BAnd(st.zmin, st.mask) # {}
        bzmax == BAnd(st.zmax, st.mask) # {}
        shifted == [st EXCEPT !.mask = Shr(st.mask, 1),
                              !.loadones = Shr(st.loadones, 1),
                              !.loadmask = BOr(Shr(st.loadmask, 1), TopBit)]
    IN IF ~bzval /\ ~bzmin /\ ~bzmax
       THEN [shifted EXCEPT !.taken = @ \cup {"000"}]
       ELSE IF ~bzval /\ ~bzmin /\ bzmax
       THEN [shifted EXCEPT
               !.bm = BOr(BAnd(st.zmin, st.loadmask), st.mask),
               !.zmax = BOr(BAnd(st.zmax, st.loadmask), st.loadones),
               !.taken = @ \cup {"001"}]
       ELSE IF ~bzval /\ bzmin /\ bzmax
       THEN [st EXCEPT !.done = TRUE, !.znext = st.zmin,
                       !.taken = @ \cup {"011"}]
       ELSE IF bzval /\ ~bzmin /\ ~bzmax
       THEN [st EXCEPT !.done = TRUE, !.znext = st.bm,
                       !.taken = @ \cup {"100"}]
       ELSE IF bzval /\ ~bzmin /\ bzmax
       THEN [shifted EXCEPT
               !.zmin = BOr(BAnd(st.zmin, st.loadmask), st.mask),
               !.taken = @ \cup {"101"}]
       ELSE IF bzval /\ bzmin /\ bzmax
       THEN [shifted EXCEPT !.taken = @ \cup {"111"}]
       ELSE [shifted EXCEPT !.taken = @ \cup {"can not happen"}]

\* n iterations from st, stopping once the function has returned (computed
\* in halves, which bounds the depth of the evaluation)
RECURSIVE bigminIter(_, _, _)
bigminIter(zval, st, n) ==
  IF n = 0 THEN st
  ELSE IF n = 1 THEN bigminStep(zval, st)
  ELSE LET h == n \div 2
           mid == bigminIter(zval, st, h)
       IN IF mid.done THEN mid ELSE bigminIter(zval, mid, n - h)

\* the locals of bigmin before its first iteration
bigminLocals(zmin, zmax) ==
  [zmin |-> zmin, zmax |-> zmax, bm |-> zmin,
   loadmask |-> LoadMask0, loadones |-> LoadOnes0,
   mask |-> TopBit, done |-> FALSE, znext |-> {}, taken |-> {}]

\* The run of bigmin(zval, zmin, zmax): mask starts at bit 63 and moves one
\* bit right per iteration, so the loop makes at most 64 iterations and one
\* more test of mask.
bigminRun(zval, zmin, zmax) ==
  bigminIter(zval, bigminLocals(zmin, zmax), SetMax(TopBit) + 2)

\* bigmin jumping to the end of the key range
bigminAsZmax(zval, zmin, zmax) == zmax

bigmin(zval, zmin, zmax) == bigminRun(zval, zmin, zmax).znext

-----------------------------------------------------------------------------
(* The index: class ZBush *)

VARIABLES
  xs, ys,     \* #xs, #ys: the coordinates (insertion order, then key order)
  ids, zs,    \* #ids, #zs: built by finish(); << >> while still undefined
  finished,   \* #finished
  pc,         \* "idle", or "scan" while range() runs its loop
  call,       \* the bounds and the locals of the running range()
  ret,        \* the last completed call: which one and what it did
  added,      \* the caller's record: the k-th add() call's point, k = 1, 2, ...
  builds,     \* how many times finish() has built the arrays
  fn          \* the helper functions called on their own: the arguments and
              \* what has been computed from them (NoFn while the index runs)

vars == <<xs, ys, ids, zs, finished, pc, call, ret, added, builds, fn>>

\* Inputs: the points the caller may add and the queries it may make.
Points ==
  { <<Num(2), Num(1)>>, <<Num(3), Num(0)>>, <<Num(2), Num(2)>>,
    <<NegNum(1), Num(1)>>, <<Num(1), HalfNum(2)>>, <<Uint32Max, TwoPow32>> }

Queries ==
  { <<Num(1), Num(1), Num(2), Num(2)>>,
    <<Num(0), Num(0), Uint32Max, Uint32Max>>,
    <<Num(2), Num(2), Num(2), Num(2)>>,
    <<Num(3), Num(0), Num(2), Num(2)>>,
    <<Num(3), Num(0), Num(0), Uint32Max>>,
    <<NegNum(1), Num(0), Num(3), Num(3)>>,
    <<Num(0), HalfNum(2), Num(3), Num(3)>>,
    <<Num(0), Num(0), TwoPow32, Num(3)>>,
    <<Num(0), Num(0), Num(3), NegNum(1)>> }

NoCall ==
  [xmin |-> Num(0), ymin |-> Num(0), xmax |-> Num(0), ymax |-> Num(0),
   zmin |-> {}, zmax |-> {}, it |-> 0, last |-> 0, results |-> << >>]

\* built: a finish() call that returned had the arrays to build (it was not
\* the no-op on an index already finalized)
NoRet ==
  [op |-> "none", threw |-> FALSE, id |-> 0, results |-> << >>,
   built |-> FALSE]

NoFn ==
  [stage |-> "none",
   x |-> Num(0), y |-> Num(0),
   xmin |-> Num(0), ymin |-> Num(0), xmax |-> Num(0), ymax |-> Num(0),
   zval |-> {}, zmin |-> {}, zmax |-> {}, run |-> bigminLocals({}, {})]

Init ==
  /\ xs = << >> /\ ys = << >>
  /\ ids = << >> /\ zs = << >>
  /\ finished = FALSE
  /\ pc = "idle"
  /\ call = NoCall
  /\ ret = NoRet
  /\ added = << >>
  /\ builds = 0
  /\ fn = NoFn

\* add returning the new length instead of the last index
addReturnsLength(xs_, ys_, x, y) ==
  [xs |-> Append(xs_, x), ys |-> Append(ys_, y), finished |-> FALSE,
   id |-> Len(xs_) + 1]

\* add(x, y) on the fields it reads: the fields it writes and its result.
add(xs_, ys_, x, y) ==
  LET xs2 == Append(xs_, x)
      ys2 == Append(ys_, y)
  IN [xs |-> xs2, ys |-> ys2, finished |-> FALSE, id |-> Len(xs2) - 1]

Add(x, y) ==
  /\ pc = "idle"
  /\ Len(added) < MaxPoints
  /\ LET r == add(xs, ys, x, y) IN
       /\ xs' = r.xs
       /\ ys' = r.ys
       /\ finished' = r.finished
       /\ ret' = [NoRet EXCEPT !.op = "add", !.id = r.id]
  /\ added' = Append(added, <<x, y>>)
  /\ UNCHANGED <<ids, zs, pc, call, builds, fn>>

\* the comparator with its two results exchanged
compareDescending(a, b) ==
  IF BLt(b.z, a.z) THEN -1
  ELSE IF BLt(a.z, b.z) THEN 1
  ELSE 0

\* the comparator handed to mapped.sort
compare(a, b) ==
  IF BLt(b.z, a.z) THEN 1
  ELSE IF BLt(a.z, b.z) THEN -1
  ELSE 0

\* Array.prototype.sort is stable: e goes behind the elements of the sorted
\* s that do not compare greater than e.
insertSorted(s, e) ==
  LET k == Cardinality({j \in 1..Len(s) : compare(s[j], e) <= 0})
  IN SubSeq(s, 1, k) \o <<e>> \o SubSeq(s, k + 1, Len(s))

RECURSIVE sort(_)
sort(m) ==
  IF m = << >> THEN << >>
  ELSE insertSorted(sort(SubSeq(m, 1, Len(m) - 1)), m[Len(m)])

\* finish keeping the arrays of an earlier build instead of building anew
finishKeepsBuild(xs_, ys_, ids_, zs_, finished_) ==
  LET same == [xs |-> xs_, ys |-> ys_, ids |-> ids_, zs |-> zs_,
               finished |-> finished_, threw |-> FALSE, built |-> FALSE]
      n == Len(xs_)
  IN IF finished_ THEN same
     ELSE IF \E i \in 1..n : ~fitsUintN(32, xs_[i]) \/ ~fitsUintN(32, ys_[i])
     THEN [same EXCEPT !.threw = TRUE]
     ELSE IF Len(zs_) > 0
     THEN [same EXCEPT !.finished = TRUE]
     ELSE LET mapped == [i \in 1..n |->
                           [i |-> i - 1, z |-> zencode64(xs_[i], ys_[i])]]
              sorted == sort(mapped)
          IN [xs |-> [k \in 1..n |-> xs_[sorted[k].i + 1]],
              ys |-> [k \in 1..n |-> ys_[sorted[k].i + 1]],
              ids |-> [k \in 1..n |-> sorted[k].i],
              zs |-> [k \in 1..n |-> sorted[k].z],
              finished |-> TRUE, threw |-> FALSE, built |-> TRUE]

\* finish dropping the arrays of the earlier build before it validates
finishClearsFirst(xs_, ys_, ids_, zs_, finished_) ==
  LET same == [xs |-> xs_, ys |-> ys_, ids |-> ids_, zs |-> zs_,
               finished |-> finished_, threw |-> FALSE, built |-> FALSE]
      n == Len(xs_)
  IN IF finished_ THEN same
     ELSE IF \E i \in 1..n : ~fitsUintN(32, xs_[i]) \/ ~fitsUintN(32, ys_[i])
     THEN [same EXCEPT !.threw = TRUE, !.ids = << >>, !.zs = << >>]
     ELSE LET mapped == [i \in 1..n |->
                           [i |-> i - 1, z |-> zencode64(xs_[i], ys_[i])]]
              sorted == sort(mapped)
          IN [xs |-> [k \in 1..n |-> xs_[sorted[k].i + 1]],
              ys |-> [k \in 1..n |-> ys_[sorted[k].i + 1]],
              ids |-> [k \in 1..n |-> sorted[k].i],
              zs |-> [k \in 1..n |-> sorted[k].z],
              finished |-> TRUE, threw |-> FALSE, built |-> TRUE]

\* finish without its test of the finished flag: it builds on every call
finishBuildsAgain(xs_, ys_, ids_, zs_, finished_) ==
  LET same == [xs |-> xs_, ys |-> ys_, ids |-> ids_, zs |-> zs_,
               finished |-> finished_, threw |-> FALSE, built |-> FALSE]
      n == Len(xs_)
  IN IF \E i \in 1..n : ~fitsUintN(32, xs_[i]) \/ ~fitsUintN(32, ys_[i])
     THEN [same EXCEPT !.threw = TRUE]
     ELSE LET mapped == [i \in 1..n |->
                           [i |-> i - 1, z |-> zencode64(xs_[i], ys_[i])]]
              sorted == sort(mapped)
          IN [xs |-> [k \in 1..n |-> xs_[sorted[k].i + 1]],
              ys |-> [k \in 1..n |-> ys_[sorted[k].i + 1]],
              ids |-> [k \in 1..n |-> sorted[k].i],
              zs |-> [k \in 1..n |-> sorted[k].z],
              finished |-> TRUE, threw |-> FALSE, built |-> TRUE]

\* finish() on the fields: the fields after the call, whether it threw and
\* whether it built the arrays.
finish(xs_, ys_, ids_, zs_, finished_) ==
  LET same == [xs |-> xs_, ys |-> ys_, ids |-> ids_, zs |-> zs_,
               finished |-> finished_, threw |-> FALSE, built |-> FALSE]
      n == Len(xs_)
  IN IF finished_ THEN same
     ELSE IF \E i \in 1..n : ~fitsUintN(32, xs_[i]) \/ ~fitsUintN(32, ys_[i])
     THEN [same EXCEPT !.threw = TRUE]
     ELSE LET mapped == [i \in 1..n |->
                           [i |-> i - 1, z |-> zencode64(xs_[i], ys_[i])]]
              sorted == sort(mapped)
          IN [xs |-> [k \in 1..n |-> xs_[sorted[k].i + 1]],
              ys |-> [k \in 1..n |-> ys_[sorted[k].i + 1]],
              ids |-> [k \in 1..n |-> sorted[k].i],
              zs |-> [k \in 1..n |-> sorted[k].z],
              finished |-> TRUE, threw |-> FALSE, built |-> TRUE]

Finish ==
  /\ pc = "idle"
  /\ LET r == finish(xs, ys, ids, zs, finished) IN
       /\ xs' = r.xs /\ ys' = r.ys /\ ids' = r.ids /\ zs' = r.zs
       /\ finished' = r.finished
       /\ ret' = [NoRet EXCEPT !.op = "finish", !.threw = r.threw,
                                !.built = r.built]
       /\ builds' = IF r.built THEN builds + 1 ELSE builds
  /\ UNCHANGED <<pc, call, added, fn>>

\* the check of the bounds without its last operand
validBoundsButYmax(xmin, ymin, xmax, ymax) ==
  ~(~fitsUintN(32, xmin) \/ ~fitsUintN(32, ymin) \/ ~fitsUintN(32, xmax))

\* the check of the four bounds at the head of range()
validBounds(xmin, ymin, xmax, ymax) ==
  ~(~fitsUintN(32, xmin) \/ ~fitsUintN(32, ymin)
      \/ ~fitsUintN(32, xmax) \/ ~fitsUintN(32, ymax))

\* range() up to its loop: finish() if needed, the check of the bounds, the
\* two keys and the two binary searches.  The loop runs in RangeStep, one
\* iteration per step, and no other call runs before it has returned.
RangeCall(xmin, ymin, xmax, ymax) ==
  /\ pc = "idle"
  /\ LET r == IF ~finished THEN finish(xs, ys, ids, zs, finished)
              ELSE [xs |-> xs, ys |-> ys, ids |-> ids, zs |-> zs,
                    finished |-> finished, threw |-> FALSE, built |-> FALSE]
         threw == r.threw \/ ~validBounds(xmin, ymin, xmax, ymax)
         zmin == zencode64(xmin, ymin)
         zmax == zencode64(xmax, ymax)
         it == bsearchlt(r.zs, 0, Len(r.zs), zmin)
         last == bsearchlte(r.zs, it, Len(r.zs), zmax)
     IN
       /\ xs' = r.xs /\ ys' = r.ys /\ ids' = r.ids /\ zs' = r.zs
       /\ finished' = r.finished
       /\ builds' = IF r.built THEN builds + 1 ELSE builds
       /\ IF threw
          THEN /\ pc' = "idle"
               /\ call' = NoCall
               /\ ret' = [NoRet EXCEPT !.op = "range", !.threw = TRUE]
          ELSE /\ pc' = "scan"
               /\ call' = [xmin |-> xmin, ymin |-> ymin, xmax |-> xmax,
                           ymax |-> ymax, zmin |-> zmin, zmax |-> zmax,
                           it |-> it, last |-> last, results |-> << >>]
               /\ ret' = NoRet
  /\ UNCHANGED <<added, fn>>

\* the test of the loop body with the upper bounds excluded
insideBelowMax(x, y, xmin, ymin, xmax, ymax) ==
  NumGeq(x, xmin) /\ NumLt(x, xmax) /\ NumGeq(y, ymin) /\ NumLt(y, ymax)

\* the test of the loop body: the point at the cursor lies in the rectangle
inside(x, y, xmin, ymin, xmax, ymax) ==
  NumGeq(x, xmin) /\ NumLeq(x, xmax) /\ NumGeq(y, ymin) /\ NumLeq(y, ymax)

\* one iteration of the loop of range() on its locals c
scanStep(c) ==
  LET x == xs[c.it + 1]
      y == ys[c.it + 1]
  IN IF inside(x, y, c.xmin, c.ymin, c.xmax, c.ymax)
     THEN [c EXCEPT !.results = Append(@, ids[c.it + 1]), !.it = @ + 1]
     ELSE LET znext == bigmin(zs[c.it + 1], c.zmin, c.zmax)
          IN [c EXCEPT !.it = bsearchlt(zs, c.it, c.last, znext)]

RangeStep ==
  /\ pc = "scan"
  /\ call.it # call.last
  /\ call' = scanStep(call)
  /\ UNCHANGED <<xs, ys, ids, zs, finished, pc, ret, added, builds, fn>>

RangeReturn ==
  /\ pc = "scan"
  /\ call.it = call.last
  /\ pc' = "idle"
  /\ ret' = [NoRet EXCEPT !.op = "range", !.results = call.results]
  /\ call' = NoCall
  /\ UNCHANGED <<xs, ys, ids, zs, finished, added, builds, fn>>

Next ==
  \/ \E p \in Points : Add(p[1], p[2])
  \/ Finish
  \/ \E q \in Queries : RangeCall(q[1], q[2], q[3], q[4])
  \/ RangeStep
  \/ RangeReturn

Spec == Init /\ [][Next]_vars

-----------------------------------------------------------------------------
(* The helper functions on their own: zencode64 and bigmin called on a    *)
(* point and the two corners of a rectangle, as range() calls them.       *)

\* a + b and c * u on BigInt
RECURSIVE BAdd(_, _)
BAdd(a, b) ==
  IF b = {} THEN a
  ELSE BAdd((a \ b) \cup (b \ a), Shl(BAnd(a, b), 1))

RECURSIVE Times(_, _)
Times(c, u) == IF c = 0 THEN {} ELSE BAdd(u, Times(c - 1, u))

\* The units: 1 (every integer point of a rectangle is on the grid), 2^30
\* (the top bits of the coordinates), 0x55555555 (its multiples fill all
\* 32 bits) and 0x13579bdf (with the others, its multiples hold every
\* value of a group of four bits).
Units == { {0}, {30}, {i \in 0..31 : i % 2 = 0}, Big(324508639) }

\* the coordinates of the grid of unit u that are in the domain
GridCoords(u) ==
  {v \in {[neg |-> FALSE, mag |-> Times(c, u), frac |-> 0] : c \in 0..GridMax} :
     fitsUintN(32, v)}

\* Inputs: a point and a well-formed rectangle on the grid of one unit.
FnInputs ==
  UNION {
    {[NoFn EXCEPT !.stage = "args", !.x = x, !.y = y, !.xmin = xmin,
                  !.ymin = ymin, !.xmax = xmax, !.ymax = ymax] :
       <<x, y, xmin, ymin, xmax, ymax>> \in
         {t \in GridCoords(u) \X GridCoords(u) \X GridCoords(u)
                  \X GridCoords(u) \X GridCoords(u) \X GridCoords(u) :
            NumLeq(t[3], t[5]) /\ NumLeq(t[4], t[6])}} :
    u \in Units }

FnInit ==
  /\ xs = << >> /\ ys = << >>
  /\ ids = << >> /\ zs = << >>
  /\ finished = FALSE
  /\ pc = "idle"
  /\ call = NoCall
  /\ ret = NoRet
  /\ added = << >>
  /\ builds = 0
  /\ fn \in FnInputs

\* the three keys range() computes: of the point (as finish() does for
\* each point) and of the two corners
Encode ==
  /\ fn.stage = "args"
  /\ fn' = [fn EXCEPT !.stage = "keys",
                      !.zval = zencode64(fn.x, fn.y),
                      !.zmin = zencode64(fn.xmin, fn.ymin),
                      !.zmax = zencode64(fn.xmax, fn.ymax)]
  /\ UNCHANGED <<xs, ys, ids, zs, finished, pc, call, ret, added, builds>>

\* bigmin(zval, zmin, zmax) on the three keys
Bigmin ==
  /\ fn.stage = "keys"
  /\ fn' = [fn EXCEPT !.stage = "bigmin",
                      !.run = bigminRun(fn.zval, fn.zmin, fn.zmax)]
  /\ UNCHANGED <<xs, ys, ids, zs, finished, pc, call, ret, added, builds>>

FnNext == Encode \/ Bigmin

FnSpec == FnInit /\ [][FnNext]_vars

-----------------------------------------------------------------------------
(* range() on the index of a whole grid: the points of the grid of one    *)
(* unit have been added row by row and finish() has built the arrays; the *)
(* queries are the well-formed rectangles of the grid, one per behaviour  *)
(* (a finalized index answers every later query from the same arrays).    *)

\* Of the points of a grid, numbered row by row from 0, the index holds
\* every one, or every third one.
Strides == {1, 3}

\* the points of the grid of unit u whose number is a multiple of m, in
\* the order of their numbers
GridSeq(u, m) ==
  LET n == Cardinality(GridCoords(u))
      coord(c) == [neg |-> FALSE, mag |-> Times(c, u), frac |-> 0]
  IN [j \in 1..(((n * n - 1) \div m) + 1) |->
        <<coord((m * (j - 1)) % n), coord((m * (j - 1)) \div n)>>]

\* the well-formed rectangles whose bounds are coordinates of the index
GridQueries ==
  LET coords == {xs[i] : i \in 1..Len(xs)} \cup {ys[i] : i \in 1..Len(ys)}
  IN {q \in coords \X coords \X coords \X coords :
        NumLeq(q[1], q[3]) /\ NumLeq(q[2], q[4])}

GridInit ==
  \E u \in Units, m \in Strides :
    LET pts == GridSeq(u, m)
        r == finish([j \in 1..Len(pts) |-> pts[j][1]],
                    [j \in 1..Len(pts) |-> pts[j][2]], << >>, << >>, FALSE)
    IN /\ xs = r.xs /\ ys = r.ys /\ ids = r.ids /\ zs = r.zs
       /\ finished = r.finished
       /\ pc = "idle"
       /\ call = NoCall
       /\ ret = [NoRet EXCEPT !.op = "finish", !.built = TRUE]
       /\ added = pts
       /\ builds = 1
       /\ fn = NoFn

GridNext ==
  \/ /\ ret.op = "finish"
     /\ \E q \in GridQueries : RangeCall(q[1], q[2], q[3], q[4])
  \/ RangeStep
  \/ RangeReturn

GridSpec == GridInit /\ [][GridNext]_vars

-----------------------------------------------------------------------------
(* What the properties speak about *)

\* v is an integer in [0, 2^32 - 1]
InDomain(v) == ~v.neg /\ v.frac = 0 /\ v.mag \subseteq 0..31

PointInDomain(p) == InDomain(p[1]) /\ InDomain(p[2])

\* the bounds of the running range() call
BoundsInDomain ==
  InDomain(call.xmin) /\ InDomain(call.ymin)
    /\ InDomain(call.xmax) /\ InDomain(call.ymax)

WellFormed == NumLeq(call.xmin, call.xmax) /\ NumLeq(call.ymin, call.ymax)

\* the point p lies in the closed rectangle of the running range() call
InRect(p) ==
  /\ NumLeq(call.xmin, p[1]) /\ NumLeq(p[1], call.xmax)
  /\ NumLeq(call.ymin, p[2]) /\ NumLeq(p[2], call.ymax)

\* the add() calls (numbered from 1) whose point lies in the rectangle
AddsInRect == {k \in 1..Len(added) : InRect(added[k])}

\* the loop of range() has ended: call.results is what range() returns
RangeDone == pc = "scan" /\ call.it = call.last

\* the key of a point in the domain, bit by bit: bit 2k of the key is bit k
\* of x, bit 2k + 1 is bit k of y
KeyOf(p) == {2 * k : k \in p[1].mag} \cup {2 * k + 1 : k \in p[2].mag}

-----------------------------------------------------------------------------
\* the point a key decodes to: x from the even bits, y from the odd bits
PointOf(z) ==
  << [neg |-> FALSE, mag |-> {k \in 0..31 : 2 * k \in z}, frac |-> 0],
     [neg |-> FALSE, mag |-> {k \in 0..31 : 2 * k + 1 \in z}, frac |-> 0] >>

\* the point p lies in the closed rectangle bigmin was called for
FnInRect(p) ==
  /\ NumLeq(fn.xmin, p[1]) /\ NumLeq(p[1], fn.xmax)
  /\ NumLeq(fn.ymin, p[2]) /\ NumLeq(p[2], fn.ymax)

\* the points of the grids of all units
GridPoints == UNION {GridCoords(u) \X GridCoords(u) : u \in Units}

-----------------------------------------------------------------------------
(* Properties *)

\* C1: on an index finalized once, range() on a well-formed rectangle
\* returns the id of every point inside the closed rectangle exactly once
\* and no other id.
C1_RangeExact ==
  (RangeDone /\ builds = 1 /\ WellFormed) =>
    /\ \A i, j \in 1..Len(call.results) :
         call.results[i] = call.results[j] => i = j
    /\ {call.results[i] : i \in 1..Len(call.results)}
         = {k - 1 : k \in AddsInRect}

\* C1 happens: three points, one of them a dead zone (outside the rectangle
\* with its key strictly between zmin and zmax), the other two returned,
\* one of these with its key strictly between the dead zone and zmax.
C1_Witness ==
  /\ RangeDone /\ builds = 1 /\ WellFormed
  /\ Len(added) = 3
  /\ Len(call.results) = 2
  /\ \E k, m \in 1..Len(added) :
       /\ ~InRect(added[k])
       /\ BLt(call.zmin, KeyOf(added[k]))
       /\ InRect(added[m])
       /\ BLt(KeyOf(added[k]), KeyOf(added[m]))
       /\ BLt(KeyOf(added[m]), call.zmax)

\* C2: every finalized entry carries the id add() returned for its point,
\* and every id range() returns is the id add() gave to a point inside the
\* rectangle.
C2_IdsAreAddIds ==
  /\ finished =>
       \A i \in 1..Len(ids) :
         /\ ids[i] + 1 \in 1..Len(added)
         /\ added[ids[i] + 1] = <<xs[i], ys[i]>>
  /\ RangeDone =>
       \A i \in 1..Len(call.results) :
         /\ call.results[i] + 1 \in 1..Len(added)
         /\ InRect(added[call.results[i] + 1])

\* C3: range() counts every point added so far: it returns as many ids as
\* there are add() calls whose point lies inside the closed rectangle,
\* whether finish() was called or not and whether the index had been
\* finalized before the latest add() calls or not.
C3_RangeSeesAllAdds ==
  RangeDone => Len(call.results) = Cardinality(AddsInRect)

\* C3 happens: a range() on an index built a second time after later adds,
\* returning all three points.
C3_Witness ==
  /\ RangeDone /\ builds = 2
  /\ Len(added) = 3
  /\ Len(call.results) = 3

\* C4: add() never fails, the k-th add() (from 0) returns k whatever calls
\* came between, and it leaves the index stale.
C4_AddReturnsCount ==
  ret.op = "add" =>
    /\ ~ret.threw
    /\ ret.id = Len(added) - 1
    /\ ~finished

\* C4 happens: the third add(), of a point outside the domain, on an index
\* that was finalized before.
C4_Witness ==
  /\ ret.op = "add" /\ ret.id = 2
  /\ builds = 1
  /\ ~PointInDomain(added[Len(added)])

\* C5: finish() fails exactly when some accumulated coordinate is not an
\* integer in [0, 2^32 - 1]; one such point anywhere fails the whole call.
C5_FinishFailsIffOutOfDomain ==
  ret.op = "finish" =>
    (ret.threw <=> \E k \in 1..Len(added) : ~PointInDomain(added[k]))

\* C5 happens: finish() fails on a stale index of three points of which
\* only the last is outside the domain, after an earlier successful build.
C5_Witness ==
  /\ ret.op = "finish" /\ ret.threw
  /\ ~finished
  /\ builds = 1
  /\ Len(added) = 3
  /\ PointInDomain(added[1]) /\ PointInDomain(added[2])
  /\ ~PointInDomain(added[3])

\* C6: range() with a bound that is not an integer in [0, 2^32 - 1] fails:
\* it never reaches its searches, so whenever range() scans or returns a
\* result all four bounds are in the domain.
C6_RangeRejectsBoundsOutOfDomain ==
  pc = "scan" => BoundsInDomain

\* C6 happens: range() has thrown on a finalized index of points in the
\* domain, which only the check of the bounds can make it do.
C6_Witness ==
  /\ ret.op = "range" /\ ret.threw
  /\ finished
  /\ Len(added) >= 1
  /\ \A k \in 1..Len(added) : PointInDomain(added[k])

\* C7: range() rejects a malformed rectangle (xmin > xmax or ymin > ymax,
\* bounds in the domain): it never runs the scan and never returns a result
\* for one.
C7_RangeRejectsMalformed ==
  pc = "scan" => WellFormed

\* C8: every range() call whose bounds pass validation runs to completion:
\* each iteration that takes the BIGMIN branch moves the cursor to a
\* strictly larger index (and the other branch moves it by one), so the
\* cursor reaches last.
C8_ScanAdvances ==
  (pc = "scan" /\ call.it # call.last) =>
    /\ scanStep(call).it > call.it
    /\ scanStep(call).it <= call.last

\* C9: a finish() that fails leaves the coordinate lists, the arrays of the
\* earlier build and the finished flag as they were.
C9_FailedFinishChangesNothing ==
  [][(ret'.op = "finish" /\ ret'.threw)
       => UNCHANGED <<xs, ys, ids, zs, finished>>]_vars

\* C9 happens: finish() has failed on an index that holds the arrays of an
\* earlier build of two points.
C9_Witness ==
  /\ ret.op = "finish" /\ ret.threw
  /\ builds >= 1
  /\ Len(zs) = 2 /\ Len(ids) = 2
  /\ Len(xs) = 3

\* C10: while the index is finalized, ids, xs, ys and keys have the length
\* of the number of add() calls, the keys are non-decreasing, and each key
\* is the encoding of its point.
C10_FinalizedArrays ==
  finished =>
    /\ Len(ids) = Len(added) /\ Len(xs) = Len(added)
    /\ Len(ys) = Len(added) /\ Len(zs) = Len(added)
    /\ \A i \in 1..(Len(zs) - 1) : BLeq(zs[i], zs[i + 1])
    /\ \A i \in 1..Len(zs) : zs[i] = KeyOf(<<xs[i], ys[i]>>)

\* C10 happens: an index of three points with three different keys, built
\* twice, whose points were not added in key order.
C10_Witness ==
  /\ finished /\ builds = 2
  /\ Len(zs) = 3
  /\ BLt(zs[1], zs[2]) /\ BLt(zs[2], zs[3])
  /\ BLt(KeyOf(added[2]), KeyOf(added[1]))

\* C11: on a finalized index every call but add() (finish(), and range()
\* from its entry through each iteration of its loop to its return, whether
\* it succeeds or fails) leaves ids, xs, ys, the keys and the finished flag
\* as they are and builds nothing; so finish() twice in a row yields the
\* same arrays and a repeated range() scans the same arrays.
C11_FinalizedIsReadOnly ==
  [][(finished /\ added' = added)
       => UNCHANGED <<xs, ys, ids, zs, finished, builds>>]_vars

\* C11 happens: finish() has returned as the no-op on a finalized index of
\* three points whose key order is not their insertion order.
C11_Witness ==
  /\ ret.op = "finish" /\ ~ret.threw /\ ~ret.built
  /\ finished
  /\ Len(zs) = 3
  /\ ids[1] # 0

\* C12: for x and y in [0, 2^32 - 1], bit 2k of encode(x, y) is bit k of x
\* and bit 2k + 1 is bit k of y, for every k; and two different points get
\* two different keys.
C12_EncodeInterleaves ==
  fn.stage \in {"keys", "bigmin"} =>
    /\ fn.zval = KeyOf(<<fn.x, fn.y>>)
    /\ fn.zmin = KeyOf(<<fn.xmin, fn.ymin>>)
    /\ fn.zmax = KeyOf(<<fn.xmax, fn.ymax>>)
    /\ <<fn.x, fn.y>> # <<fn.xmin, fn.ymin>> => fn.zval # fn.zmin
    /\ <<fn.x, fn.y>> # <<fn.xmax, fn.ymax>> => fn.zval # fn.zmax
    /\ <<fn.xmin, fn.ymin>> # <<fn.xmax, fn.ymax>> => fn.zmin # fn.zmax

\* C12 happens: the points (2^32 - 1, 0) and (0, 2^32 - 1) have been
\* encoded, to the keys of all even bits and of all odd bits.
C12_Witness ==
  /\ fn.stage = "keys"
  /\ fn.xmax = Uint32Max /\ fn.ymax = Uint32Max
  /\ fn.x = Uint32Max /\ fn.y = Num(0)
  /\ fn.xmin = Num(0) /\ fn.ymin = Uint32Max
  /\ fn.zval = LoadMask0
  /\ fn.zmin = Shl(LoadMask0, 1)

\* C13: for a well-formed rectangle the key of every point inside lies
\* between the keys of the two corners, and so on a finalized index every
\* point inside the rectangle has its position in the window [it, last)
\* range() computes, it being the first position with key >= zmin and last
\* the first position with key > zmax; the cursor stays in the window.
C13_InsideIsInWindow ==
  (pc = "scan" /\ WellFormed) =>
    LET it0 == bsearchlt(zs, 0, Len(zs), call.zmin)
    IN /\ it0 = Cardinality({i \in 1..Len(zs) : BLt(zs[i], call.zmin)})
       /\ call.last
            = Cardinality({i \in 1..Len(zs) : BLeq(zs[i], call.zmax)})
       /\ it0 <= call.it /\ call.it <= call.last
       /\ \A i \in 1..Len(zs) :
            InRect(<<xs[i], ys[i]>>) =>
              /\ BLeq(call.zmin, zs[i]) /\ BLeq(zs[i], call.zmax)
              /\ it0 <= i - 1 /\ i - 1 < call.last

\* C13 happens: a range() over the index of a whole grid whose window
\* leaves out keys on both sides and holds, between the points inside the
\* rectangle, points outside it; (xmax, ymax) is in the index.
C13_Witness ==
  /\ pc = "scan" /\ WellFormed
  /\ Len(zs) = (GridMax + 1) * (GridMax + 1)
  /\ 0 < call.it /\ call.it + 2 < call.last /\ call.last < Len(zs)
  /\ ~InRect(<<xs[call.it + 1], ys[call.it + 1]>>)
  /\ zs[call.last] = call.zmax
  /\ \E i \in 1..Len(zs) : InRect(<<xs[i], ys[i]>>) /\ i - 1 > call.it

\* C14: for a well-formed rectangle and a key zval with zmin <= zval < zmax
\* whose point lies outside the rectangle, bigmin(zval, zmin, zmax) is the
\* smallest key above zval whose point lies inside: it is above zval, at
\* most zmax, decodes to a point inside, and no point inside has a key
\* above zval and below it.
C14_BigminIsNextInside ==
  (/\ fn.stage = "bigmin"
   /\ BLeq(fn.zmin, fn.zval) /\ BLt(fn.zval, fn.zmax)
   /\ ~FnInRect(<<fn.x, fn.y>>)) =>
    /\ fn.run.done
    /\ BLt(fn.zval, fn.run.znext)
    /\ BLeq(fn.run.znext, fn.zmax)
    /\ FnInRect(PointOf(fn.run.znext))
    /\ \A g \in GridPoints :
         (FnInRect(g) /\ BLt(fn.zval, KeyOf(g)))
           => BLeq(fn.run.znext, KeyOf(g))

\* C14 happens: bigmin has been called for the rectangle (1,1)-(2,2) on the
\* key 5 of the point (3, 0) outside it, and has returned the key 6 of
\* (2, 1), below zmax = 12.
C14_Witness ==
  /\ fn.stage = "bigmin"
  /\ fn.xmin = Num(1) /\ fn.ymin = Num(1)
  /\ fn.xmax = Num(2) /\ fn.ymax = Num(2)
  /\ fn.x = Num(3) /\ fn.y = Num(0)
  /\ fn.zval = Big(5)
  /\ fn.run.znext = Big(6)

\* C15: in a range() call on a well-formed rectangle, whenever the loop is
\* about to call bigmin (the point at the cursor fails the test of the loop
\* body), the key at the cursor is at least zmin and below zmax, and zmin
\* is at most zmax; so bigmin is never called on the key zmax.
C15_BigminCalledInBounds ==
  (/\ pc = "scan" /\ call.it # call.last
   /\ WellFormed
   /\ ~inside(xs[call.it + 1], ys[call.it + 1],
              call.xmin, call.ymin, call.xmax, call.ymax)) =>
    /\ BLeq(call.zmin, zs[call.it + 1])
    /\ BLt(zs[call.it + 1], call.zmax)
    /\ BLeq(call.zmin, call.zmax)

\* C15 happens: the loop is about to call bigmin, after it has returned an
\* id, on a key strictly between zmin and zmax, while the index holds the
\* corner (xmax, ymax) with the key zmax.
C15_Witness ==
  /\ pc = "scan" /\ call.it # call.last
  /\ WellFormed
  /\ ~inside(xs[call.it + 1], ys[call.it + 1],
             call.xmin, call.ymin, call.xmax, call.ymax)
  /\ Len(call.results) >= 1
  /\ BLt(call.zmin, zs[call.it + 1])
  /\ zs[call.last] = call.zmax

\* C16: in a run of bigmin with zmin <= zval <= zmax, the keys of the
\* corners of a well-formed rectangle, the last branch of the loop (the
\* zmin bit set and the zmax bit clear, after the updates made at higher
\* positions) is never taken.
C16_LastBranchNotTaken ==
  (/\ fn.stage = "bigmin"
   /\ BLeq(fn.zmin, fn.zval) /\ BLeq(fn.zval, fn.zmax)) =>
    "can not happen" \notin fn.run.taken

\* C16 happens: a run of bigmin on keys with bit 63 set has lowered zmax
\* (branch (0, 0, 1)) and raised zmin (branch (1, 0, 1)) and has gone on
\* through lower positions to its return.
C16_Witness ==
  /\ fn.stage = "bigmin"
  /\ BLeq(fn.zmin, fn.zval) /\ BLeq(fn.zval, fn.zmax)
  /\ 63 \in fn.zmax
  /\ {"001", "101", "111"} \subseteq fn.run.taken
  /\ fn.run.zmin # fn.zmin /\ fn.run.zmax # fn.zmax
  /\ fn.run.done

\* C17: a range() call that fails on the check of its bounds (the points
\* of the index are all in the domain, so finish() does not fail) leaves
\* the coordinate lists, the built arrays and the finished flag as they
\* were: a stale index is still stale, a finalized one is unchanged.
C17_FailedRangeChangesNothing ==
  [][(/\ ret'.op = "range" /\ ret'.threw
      /\ \A k \in 1..Len(added) : PointInDomain(added[k]))
       => UNCHANGED <<xs, ys, ids, zs, finished>>]_vars

\* C18: in a run of bigmin with zmin <= zval < zmax, the keys of the
\* corners of a well-formed rectangle, the branch on the bits (0, 1, 1) of
\* zval, zmin and zmax, which returns zmin at once, is never taken.
C18_ReturnZminNotTaken ==
  (/\ fn.stage = "bigmin"
   /\ BLeq(fn.zmin, fn.zval) /\ BLt(fn.zval, fn.zmax)) =>
    "011" \notin fn.run.taken

\* C18, amended: in such a run the branch on the bits (0, 1, 1) is taken
\* only after the branch on (1, 0, 1) has raised zmin at a higher position;
\* it returns the raised zmin, which is above zval and above the zmin of
\* the call, at most zmax, and the key of a point inside the rectangle.
C18_ReturnZminAfterRaise ==
  (/\ fn.stage = "bigmin"
   /\ BLeq(fn.zmin, fn.zval) /\ BLt(fn.zval, fn.zmax)
   /\ "011" \in fn.run.taken) =>
    /\ "101" \in fn.run.taken
    /\ fn.run.done
    /\ fn.run.znext = fn.run.zmin
    /\ BLt(fn.zmin, fn.run.znext)
    /\ BLt(fn.zval, fn.run.znext)
    /\ BLeq(fn.run.znext, fn.zmax)
    /\ FnInRect(PointOf(fn.run.znext))

\* C18 happens: bigmin(2, 1, 3), for the rectangle (1,0)-(1,1) and the key
\* of the point (0, 1), has taken the branch on (1, 0, 1) at bit 1 and the
\* branch on (0, 1, 1) at bit 0 and has returned 3.
C18_Witness ==
  /\ fn.stage = "bigmin"
  /\ fn.zval = Big(2) /\ fn.zmin = Big(1) /\ fn.zmax = Big(3)
  /\ fn.run.taken = {"000", "101", "011"}
  /\ fn.run.znext = Big(3)

\* C19: once a point with a coordinate outside the domain has been added,
\* the index is never finalized again and no scan runs, whatever is added
\* later: every finish() and every range() called from then on fails, also
\* on an index that was finalized before.
C19_DomainViolationIsPermanent ==
  (\E k \in 1..Len(added) : ~PointInDomain(added[k])) =>
    /\ ~finished
    /\ pc = "idle"
    /\ ret.op \in {"finish", "range"} => ret.threw

\* C19 happens: range() has failed on an index that was built with one
\* point, then got a point outside the domain and after it a point in the
\* domain; the arrays of the first build are still there.
C19_Witness ==
  /\ ret.op = "range" /\ ret.threw
  /\ builds = 1 /\ Len(zs) = 1
  /\ Len(added) = 3
  /\ PointInDomain(added[1])
  /\ ~PointInDomain(added[2])
  /\ PointInDomain(added[3])

====
